---- MODULE Spec2Model ----
(***************************************************************************)
(* Model of bot.py: a Telegram diary bot.  One JSON file (the store) maps  *)
(* chat ids to {diary, mode, tasks}; handle_message, morning_routine and   *)
(* evening_routine are coroutines that load the whole file, work on their  *)
(* private copy across await points and write the whole file back;         *)
(* delayed_send_reminder is a sleeping coroutine per accepted task line.   *)
(* Texts are sequences of one-character strings.  Instants are seconds.    *)
(***************************************************************************)
EXTENDS Integers, Sequences, FiniteSets, TLC

VARIABLES store, hs, rt, timers, now, events

vars == <<store, hs, rt, timers, now, events>>

(***************************************************************************)
(* Bounds of the model                                                     *)
(***************************************************************************)
\* messages received, daily triggers fired and clock ticks, taken together
MaxEvents == 3
\* reminder coroutines created
MaxTimers == 3

Chats == {"42", "77"}
Kinds == {"morning", "evening"}

(***************************************************************************)
(* Program constants                                                       *)
(***************************************************************************)
MAX_LEN == 4096
LeadMinutes == 10
DaySecs == 24 * 60 * 60
MorningPrefixLen == 17
MorningSuffixLen == 32
PlanPrefixLen == 31
PlanSuffixLen == 96
ReflectPrefixLen == 2
FallbackLen == 24

(***************************************************************************)
(* Texts                                                                   *)
(***************************************************************************)
NL == "\n"
SP == " "
Whitespace == {SP, NL}
Digits == <<"0", "1", "2", "3", "4", "5", "6", "7", "8", "9">>

IsDigit(ch) == \E i \in 1..10 : Digits[i] = ch
DigitVal(ch) == (CHOOSE i \in 1..10 : Digits[i] = ch) - 1

\* str.strip(): drop leading and trailing whitespace
RECURSIVE lstrip(_)
lstrip(s) == IF s # <<>> /\ Head(s) \in Whitespace THEN lstrip(Tail(s)) ELSE s

RECURSIVE rstrip(_)
rstrip(s) ==
    IF s # <<>> /\ s[Len(s)] \in Whitespace
    THEN rstrip(SubSeq(s, 1, Len(s) - 1))
    ELSE s

strip(s) == rstrip(lstrip(s))

\* position of the first occurrence of ch in s, 0 when there is none
FirstPos(s, ch) ==
    IF \E i \in 1..Len(s) : s[i] = ch
    THEN CHOOSE i \in 1..Len(s) : s[i] = ch /\ \A j \in 1..(i - 1) : s[j] # ch
    ELSE 0

\* str.split("\n"): always at least one piece
RECURSIVE split_lines(_)
split_lines(s) ==
    LET p == FirstPos(s, NL) IN
    IF p = 0 THEN <<s>>
    ELSE <<SubSeq(s, 1, p - 1)>> \o split_lines(SubSeq(s, p + 1, Len(s)))

\* str.split(" ", 1): one piece when the line has no space, else two
split_first_space(line) ==
    LET p == FirstPos(line, SP) IN
    IF p = 0 THEN <<line>>
    ELSE <<SubSeq(line, 1, p - 1), SubSeq(line, p + 1, Len(line))>>

\* value of a sequence of one or two digits
Num(ds) == IF Len(ds) = 1 THEN DigitVal(ds[1])
           ELSE 10 * DigitVal(ds[1]) + DigitVal(ds[2])

AllDigits(ds) == \A i \in 1..Len(ds) : IsDigit(ds[i])

\* datetime.strptime(tok, "%H:%M"): hour is one or two digits up to 23,
\* minute one or two digits up to 59, nothing else may remain.
strptime(tok) ==
    LET p == FirstPos(tok, ":")
        hh == SubSeq(tok, 1, p - 1)
        mm == SubSeq(tok, p + 1, Len(tok))
        ok == /\ p # 0
              /\ Len(hh) \in {1, 2} /\ AllDigits(hh)
              /\ Len(mm) \in {1, 2} /\ AllDigits(mm)
              /\ Num(hh) <= 23 /\ Num(mm) <= 59
    IN  IF ok THEN [ok |-> TRUE, hour |-> Num(hh), minute |-> Num(mm)]
        ELSE [ok |-> FALSE, hour |-> 0, minute |-> 0]

(***************************************************************************)
(* The store: a JSON object, modelled as the list of its records in        *)
(* insertion order (the order `for chat_id in data` iterates in).          *)
(***************************************************************************)
Has(d, c) == \E i \in 1..Len(d) : d[i].id = c
Idx(d, c) == CHOOSE i \in 1..Len(d) : d[i].id = c
Get(d, c) == d[Idx(d, c)]

\* faulty variant: a new chat starts in plan mode
NewRecord_plan(c) == [id |-> c, mode |-> "plan", diary |-> <<>>, tasks |-> <<>>]

NewRecord(c) == [id |-> c, mode |-> "none", diary |-> <<>>, tasks |-> <<>>]

\* load_data(): the whole file (the empty object when there is no file)
load_data == store

\* save_data(data): the whole file is replaced by the caller's copy
save_data(data) == data

\* lines 109-110: a chat without a record gets the default record
ensure_record(d, c) == IF Has(d, c) THEN d ELSE Append(d, NewRecord(c))

\* lines 115 and 137: data[chat_id]["diary"].append({"type": ..., "text": text})
diary_append(d, c, type, text) ==
    [d EXCEPT ![Idx(d, c)].diary = Append(@, [type |-> type, text |-> text])]

set_mode(d, c, m) == [d EXCEPT ![Idx(d, c)].mode = m]

\* faulty variant: the new schedule is added to the old one
set_tasks_extend(d, c, tasks) == [d EXCEPT ![Idx(d, c)].tasks = @ \o tasks]

set_tasks(d, c, tasks) == [d EXCEPT ![Idx(d, c)].tasks = tasks]

(***************************************************************************)
(* generate_message: the model's text, stripped, or the fallback string    *)
(* when the call raises; only the length of the result is modelled.        *)
(***************************************************************************)
GenLens == {0, MAX_LEN + 1}

\* faulty variant: the exception of the generator call is not caught
generate_message_raises(ok, len) ==
    IF ok THEN [raised |-> FALSE, len |-> len]
    ELSE [raised |-> TRUE, len |-> 0]

generate_message(ok, len) ==
    IF ok THEN [raised |-> FALSE, len |-> len]
    ELSE [raised |-> FALSE, len |-> FallbackLen]

(***************************************************************************)
(* send_long_message: the chunks text[i:i+MAX_LEN] for i in               *)
(* range(0, len(text), MAX_LEN), in send order.  A chunk is the slice      *)
(* text[from:to] of a text of len characters, given by its two offsets.    *)
(***************************************************************************)
NumChunks(len) == (len + MAX_LEN - 1) \div MAX_LEN

\* faulty variant: the rest after the last full chunk is not sent
send_long_message_full_only(len) ==
    [k \in 1..(len \div MAX_LEN) |->
        [from |-> (k - 1) * MAX_LEN, to |-> k * MAX_LEN]]

send_long_message(len) ==
    [k \in 1..NumChunks(len) |->
        [from |-> (k - 1) * MAX_LEN,
         to |-> IF k * MAX_LEN < len THEN k * MAX_LEN ELSE len]]

(***************************************************************************)
(* schedule_task: the reminder coroutine handed to the event loop, or      *)
(* nothing when the computation raises.  nw is datetime.now().             *)
(***************************************************************************)
LeadClock(p) == (p.hour * 60 + p.minute + 24 * 60 - LeadMinutes) % (24 * 60)

DayStart(t) == t - (t % DaySecs)

\* faulty variant: a lead-adjusted time that has passed is not moved to tomorrow
ScheduledTime_no_roll(p, nw) == DayStart(nw) + LeadClock(p) * 60

\* faulty variant: the comparison with now is made on the task time, not the lead-adjusted one
ScheduledTime_task_time(p, nw) ==
    LET today == DayStart(nw) + LeadClock(p) * 60
    IN  IF DayStart(nw) + (p.hour * 60 + p.minute) * 60 < nw THEN today + DaySecs ELSE today

ScheduledTime(p, nw) ==
    LET today == DayStart(nw) + LeadClock(p) * 60
    IN  IF today < nw THEN today + DaySecs ELSE today

schedule_task(chat_id, time_str, task, nw) ==
    LET p == strptime(time_str) IN
    IF ~p.ok THEN <<>>
    ELSE <<[chat |-> chat_id, task |-> task, time_str |-> time_str,
            armed |-> nw, delay |-> ScheduledTime(p, nw) - nw,
            pc |-> "sleeping", attempts |-> 0, delivered |-> 0]>>

(***************************************************************************)
(* handle_message, schedule branch: the loop over the lines (120-131).     *)
(* The loop has no await before the error reply, so it is one step.        *)
(***************************************************************************)
\* the zero-padded form HH:MM of a parsed time, as strftime("%H:%M") gives
\* it; the program itself never formats a time
TwoDigits(n) == <<Digits[(n \div 10) + 1], Digits[(n % 10) + 1]>>
strftime(p) == TwoDigits(p.hour) \o <<":">> \o TwoDigits(p.minute)

\* faulty variant: the parsed time is stored in its zero-padded form
RECURSIVE parse_lines_canonical(_, _, _, _, _)
parse_lines_canonical(chat_id, lines, nw, tasks, armed) ==
    IF lines = <<>>
    THEN [bad |-> FALSE, line |-> <<>>, tasks |-> tasks, armed |-> armed]
    ELSE LET line == Head(lines)
             parts == split_first_space(line)
         IN  IF Len(parts) < 2 \/ ~strptime(parts[1]).ok
             THEN [bad |-> TRUE, line |-> line, tasks |-> tasks, armed |-> armed]
             ELSE parse_lines_canonical(chat_id, Tail(lines), nw,
                      Append(tasks, <<strftime(strptime(parts[1])), parts[2]>>),
                      armed \o schedule_task(chat_id, parts[1], parts[2], nw))

\* faulty variant: a schedule with a malformed line arms nothing
RECURSIVE parse_lines_all_or_nothing(_, _, _, _, _)
parse_lines_all_or_nothing(chat_id, lines, nw, tasks, armed) ==
    IF lines = <<>>
    THEN [bad |-> FALSE, line |-> <<>>, tasks |-> tasks, armed |-> armed]
    ELSE LET line == Head(lines)
             parts == split_first_space(line)
         IN  IF Len(parts) < 2 \/ ~strptime(parts[1]).ok
             THEN [bad |-> TRUE, line |-> line, tasks |-> tasks, armed |-> <<>>]
             ELSE parse_lines_all_or_nothing(chat_id, Tail(lines), nw,
                      Append(tasks, <<parts[1], parts[2]>>),
                      armed \o schedule_task(chat_id, parts[1], parts[2], nw))

\* faulty variant: a malformed line is skipped and the loop goes on
RECURSIVE parse_lines_skip(_, _, _, _, _)
parse_lines_skip(chat_id, lines, nw, tasks, armed) ==
    IF lines = <<>>
    THEN [bad |-> FALSE, line |-> <<>>, tasks |-> tasks, armed |-> armed]
    ELSE LET line == Head(lines)
             parts == split_first_space(line)
         IN  IF Len(parts) < 2 \/ ~strptime(parts[1]).ok
             THEN parse_lines_skip(chat_id, Tail(lines), nw, tasks, armed)
             ELSE parse_lines_skip(chat_id, Tail(lines), nw,
                                   Append(tasks, <<parts[1], parts[2]>>),
                                   armed \o schedule_task(chat_id, parts[1], parts[2], nw))

RECURSIVE parse_lines(_, _, _, _, _)
parse_lines(chat_id, lines, nw, tasks, armed) ==
    IF lines = <<>>
    THEN [bad |-> FALSE, line |-> <<>>, tasks |-> tasks, armed |-> armed]
    ELSE LET line == Head(lines)
             parts == split_first_space(line)
         IN  IF Len(parts) < 2 \/ ~strptime(parts[1]).ok
             THEN [bad |-> TRUE, line |-> line, tasks |-> tasks, armed |-> armed]
             ELSE parse_lines(chat_id, Tail(lines), nw,
                              Append(tasks, <<parts[1], parts[2]>>),
                              armed \o schedule_task(chat_id, parts[1], parts[2], nw))

\* faulty variant: the reminders of a new schedule replace the pending ones
run_coroutine_threadsafe_replace(pending, new) ==
    IF new = <<>> THEN pending ELSE new

\* line 68: each reminder is handed to the event loop as a coroutine of
\* its own, after those the loop already runs
run_coroutine_threadsafe(pending, new) == pending \o new

parse_schedule(chat_id, text, nw) ==
    parse_lines(chat_id, split_lines(strip(text)), nw, <<>>, <<>>)

(***************************************************************************)
(* Inputs                                                                  *)
(***************************************************************************)
TRun == <<"r", "u", "n">>
TOk2 == <<"8", ":", "0", "0", " ", "M", NL, "9", ":", "3", "0", " ", "W">>
TBad2 == <<"8", ":", "0", "0", " ", "M", NL, "b", "a", "d">>
TBadHour == <<"2", "5", ":", "0", "0", " ", "Z">>
TOk1 == <<"9", ":", "3", "0", " ", "W">>

Texts == {TRun, TOk2, TBad2, TBadHour}

\* the clock of the model: it starts at 07:45:30 and advances by hours
StartClock == 7 * 3600 + 45 * 60 + 30
TickSecs == 60 * 60

\* stores the process can find in data.json when it starts
OldPlan == [type |-> "plan", text |-> TRun]
OldTask == <<<<"7", ":", "0", "0">>, <<"G">>>>

InitStores ==
    { <<>>,
      <<[id |-> "42", mode |-> "plan", diary |-> <<>>, tasks |-> <<>>]>>,
      <<[id |-> "42", mode |-> "schedule", diary |-> <<OldPlan>>, tasks |-> <<OldTask>>],
        [id |-> "77", mode |-> "reflect", diary |-> <<>>, tasks |-> <<>>]>> }

(***************************************************************************)
(* State.  The dispatcher hands handle_message one update at a time, so    *)
(* there is one handler in flight; the routines and the reminders are      *)
(* coroutines of their own and run between its await points.               *)
(***************************************************************************)
IdleHandler ==
    [pc |-> "idle", chat |-> "", text |-> <<>>, mode |-> "none", data |-> <<>>,
     loaded |-> <<>>, gen |-> "none", len |-> 0, pending |-> <<>>, out |-> <<>>,
     armed |-> 0]

IdleRoutine ==
    [pc |-> "idle", data |-> <<>>, loaded |-> <<>>, i |-> 0, pending |-> <<>>,
     sent |-> 0, saves |-> 0]

HandlerRunning == {"gen", "send", "confirm", "error"}
RoutineRunning == {"gen", "send"}

Init ==
    /\ store \in InitStores
    /\ hs = IdleHandler
    /\ rt = [k \in Kinds |-> IdleRoutine]
    /\ timers = <<>>
    /\ now = StartClock
    /\ events = 0

(***************************************************************************)
(* handle_message                                                          *)
(***************************************************************************)
\* faulty variant: the reflect branch leaves the mode as it is
after_reply_keep_reflect(d, c, mode) ==
    CASE mode = "plan" -> set_mode(d, c, "schedule")
      [] OTHER -> d

\* lines 118, 140: what the branch does to its copy after the reply was sent
after_reply(d, c, mode) ==
    CASE mode = "plan" -> set_mode(d, c, "schedule")
      [] mode = "reflect" -> set_mode(d, c, "none")
      [] OTHER -> d

\* lines 116-117, 138-139, 144-145: the length of the reply text
reply_len(mode, len) ==
    CASE mode = "plan" -> PlanPrefixLen + len + PlanSuffixLen
      [] mode = "reflect" -> ReflectPrefixLen + len
      [] OTHER -> len

\* lines 105-116, 120-131, 136-138, 144: from the load up to the first await
HandleStart(c, text) ==
    /\ hs.pc \notin HandlerRunning
    /\ events < MaxEvents
    /\ events' = events + 1
    /\ LET data == ensure_record(load_data, c)
           mode == Get(data, c).mode
           h == [IdleHandler EXCEPT !.chat = c, !.text = text, !.mode = mode,
                                    !.loaded = load_data]
       IN  CASE mode = "plan" ->
                  /\ hs' = [h EXCEPT !.pc = "gen",
                                     !.data = diary_append(data, c, "plan", text)]
                  /\ UNCHANGED timers
             [] mode = "reflect" ->
                  /\ hs' = [h EXCEPT !.pc = "gen",
                                     !.data = diary_append(data, c, "reflection", text)]
                  /\ UNCHANGED timers
             [] mode = "schedule" ->
                  LET r == parse_schedule(c, text, now) IN
                  /\ Len(timers) + Len(r.armed) <= MaxTimers
                  /\ timers' = run_coroutine_threadsafe(timers, r.armed)
                  /\ hs' = IF r.bad
                           THEN [h EXCEPT !.pc = "error", !.data = data,
                                          !.armed = Len(r.armed),
                                          !.pending = <<[kind |-> "error", arg |-> r.line]>>]
                           ELSE [h EXCEPT !.pc = "confirm",
                                          !.data = set_mode(set_tasks(data, c, r.tasks), c, "none"),
                                          !.armed = Len(r.armed),
                                          !.pending = <<[kind |-> "confirm", arg |-> <<>>]>>]
             [] OTHER ->
                  /\ hs' = [h EXCEPT !.pc = "gen", !.data = data]
                  /\ UNCHANGED timers
    /\ UNCHANGED <<store, rt, now>>

\* the handler returns after save_data (line 147)
HandlerSaved(h, data) ==
    /\ store' = save_data(data)
    /\ hs' = [h EXCEPT !.pc = "saved", !.data = <<>>, !.pending = <<>>]

\* generate_message returns (lines 116, 138, 144); send_long_message starts
HandleGenDone(ok, len) ==
    /\ hs.pc = "gen"
    /\ LET g == generate_message(ok, len)
           h == [hs EXCEPT !.gen = IF ok THEN "ok" ELSE "fallback",
                           !.len = reply_len(hs.mode, g.len)]
           chunks == send_long_message(h.len)
       IN  IF g.raised
           THEN /\ hs' = [h EXCEPT !.pc = "failed", !.data = <<>>]
                /\ UNCHANGED store
           ELSE IF chunks = <<>>
           THEN HandlerSaved(h, after_reply(h.data, h.chat, h.mode))
           ELSE /\ hs' = [h EXCEPT !.pc = "send",
                                   !.pending = [k \in 1..Len(chunks) |->
                                                   [kind |-> "chunk", arg |-> chunks[k]]]]
                /\ UNCHANGED store
    /\ UNCHANGED <<rt, timers, now, events>>

\* faulty variant: the branch's changes are saved although the send failed
HandleSendDone_save_anyway(ok) ==
    /\ hs.pc \in {"send", "confirm", "error"}
    /\ LET h == [hs EXCEPT !.out = Append(@, [msg |-> Head(hs.pending), ok |-> ok]),
                           !.pending = Tail(@)]
       IN  IF hs.pc = "error"
           THEN /\ hs' = [h EXCEPT !.pc = IF ok THEN "rejected" ELSE "failed",
                                   !.data = <<>>, !.pending = <<>>]
                /\ UNCHANGED store
           ELSE IF ~ok
           THEN /\ hs' = [h EXCEPT !.pc = "failed", !.data = <<>>, !.pending = <<>>]
                /\ store' = save_data(h.data)
           ELSE IF h.pending # <<>>
           THEN /\ hs' = h
                /\ UNCHANGED store
           ELSE IF hs.pc = "confirm"
           THEN HandlerSaved(h, h.data)
           ELSE HandlerSaved(h, after_reply(h.data, h.chat, h.mode))
    /\ UNCHANGED <<rt, timers, now, events>>

\* one bot.send_message of the reply completes (lines 76, 130, 134)
HandleSendDone(ok) ==
    /\ hs.pc \in {"send", "confirm", "error"}
    /\ LET h == [hs EXCEPT !.out = Append(@, [msg |-> Head(hs.pending), ok |-> ok]),
                           !.pending = Tail(@)]
       IN  IF ~ok
           THEN \* the exception leaves handle_message: nothing is saved
                /\ hs' = [h EXCEPT !.pc = "failed", !.data = <<>>, !.pending = <<>>]
                /\ UNCHANGED store
           ELSE IF hs.pc = "error"
           THEN \* line 131: return
                /\ hs' = [h EXCEPT !.pc = "rejected", !.data = <<>>]
                /\ UNCHANGED store
           ELSE IF h.pending # <<>>
           THEN /\ hs' = h
                /\ UNCHANGED store
           ELSE IF hs.pc = "confirm"
           THEN HandlerSaved(h, h.data)
           ELSE HandlerSaved(h, after_reply(h.data, h.chat, h.mode))
    /\ UNCHANGED <<rt, timers, now, events>>

(***************************************************************************)
(* morning_routine and evening_routine                                     *)
(***************************************************************************)
routine_mode(k) == IF k = "morning" THEN "plan" ELSE "reflect"

\* faulty variant: a chat that still owes its schedule keeps its mode
routine_set_unless_schedule(d, i, k) ==
    IF d[i].mode = "schedule" THEN d ELSE [d EXCEPT ![i].mode = routine_mode(k)]

\* lines 84 and 92: data[chat_id]["mode"] = ... for the chat at position i
routine_set(d, i, k) == [d EXCEPT ![i].mode = routine_mode(k)]

\* the routine's position at chat number i: the morning routine awaits the
\* generator first, the evening routine sends at once
RoutineAt(r, k, i) ==
    IF k = "morning"
    THEN [r EXCEPT !.pc = "gen", !.i = i, !.pending = <<>>]
    ELSE [r EXCEPT !.pc = "send", !.i = i, !.pending = <<1>>]

RoutineSaved(k, r) ==
    /\ store' = save_data(r.data)
    /\ rt' = [rt EXCEPT ![k] = [r EXCEPT !.pc = "saved", !.saves = @ + 1,
                                         !.data = <<>>, !.i = 0,
                                         !.pending = <<>>]]

\* lines 80-82 and 89-91: the load and the first await
RoutineStart(k) ==
    /\ rt[k].pc \notin RoutineRunning
    /\ events < MaxEvents
    /\ events' = events + 1
    /\ LET r == [IdleRoutine EXCEPT !.data = load_data, !.loaded = load_data]
       IN  IF load_data = <<>>
           THEN RoutineSaved(k, r)
           ELSE /\ rt' = [rt EXCEPT ![k] = RoutineAt(r, k, 1)]
                /\ UNCHANGED store
    /\ UNCHANGED <<hs, timers, now>>

\* line 82-83: generate_message returns, send_long_message starts
RoutineGenDone(ok, len) ==
    /\ rt["morning"].pc = "gen"
    /\ LET g == generate_message(ok, len)
           r == rt["morning"]
       IN  IF g.raised
           THEN rt' = [rt EXCEPT !["morning"] =
                    [r EXCEPT !.pc = "failed", !.data = <<>>, !.i = 0]]
           ELSE rt' = [rt EXCEPT !["morning"] =
                    [r EXCEPT !.pc = "send",
                              !.pending = send_long_message(
                                  MorningPrefixLen + g.len + MorningSuffixLen)]]
    /\ UNCHANGED <<store, hs, timers, now, events>>

\* one bot.send_message of the routine completes (lines 76, 91); after the
\* last chunk the chat's mode is set (84, 92) and the loop goes on (85, 93)
RoutineSendDone(k, ok) ==
    /\ rt[k].pc = "send"
    /\ LET r == [rt[k] EXCEPT !.pending = Tail(@)]
       IN  IF ~ok
           THEN \* the exception leaves the routine: nothing is saved
                /\ rt' = [rt EXCEPT ![k] = [r EXCEPT !.pc = "failed", !.data = <<>>,
                                                     !.i = 0, !.pending = <<>>]]
                /\ UNCHANGED store
           ELSE IF r.pending # <<>>
           THEN /\ rt' = [rt EXCEPT ![k] = r]
                /\ UNCHANGED store
           ELSE LET r2 == [r EXCEPT !.data = routine_set(@, r.i, k), !.sent = @ + 1]
                IN  IF r.i = Len(r.data)
                    THEN RoutineSaved(k, r2)
                    ELSE /\ rt' = [rt EXCEPT ![k] = RoutineAt(r2, k, r.i + 1)]
                         /\ UNCHANGED store
    /\ UNCHANGED <<hs, timers, now, events>>

(***************************************************************************)
(* delayed_send_reminder                                                   *)
(***************************************************************************)
Elapsed(t) == now - t.armed >= t.delay

\* faulty variant: a reminder fires only while its task is still stored
TimerWake_if_stored(i) ==
    /\ i \in 1..Len(timers)
    /\ timers[i].pc = "sleeping"
    /\ Elapsed(timers[i])
    /\ Has(store, timers[i].chat)
    /\ \E j \in 1..Len(Get(store, timers[i].chat).tasks) :
          Get(store, timers[i].chat).tasks[j][2] = timers[i].task
    /\ timers' = [timers EXCEPT ![i].pc = "sending", ![i].attempts = @ + 1]
    /\ UNCHANGED <<store, hs, rt, now, events>>

\* asyncio.sleep(delay) returns and bot.send_message is called (52-54)
TimerWake(i) ==
    /\ i \in 1..Len(timers)
    /\ timers[i].pc = "sleeping"
    /\ Elapsed(timers[i])
    /\ timers' = [timers EXCEPT ![i].pc = "sending", ![i].attempts = @ + 1]
    /\ UNCHANGED <<store, hs, rt, now, events>>

\* faulty variant: a failed send is tried again
TimerSendDone_retry(i, ok) ==
    /\ i \in 1..Len(timers)
    /\ timers[i].pc = "sending"
    /\ timers' = [timers EXCEPT ![i].pc = IF ok THEN "done" ELSE "sleeping",
                                ![i].delivered = IF ok THEN @ + 1 ELSE @]
    /\ UNCHANGED <<store, hs, rt, now, events>>

\* the send completes or raises; the exception is logged (54-56)
TimerSendDone(i, ok) ==
    /\ i \in 1..Len(timers)
    /\ timers[i].pc = "sending"
    /\ timers' = [timers EXCEPT ![i].pc = "done",
                                ![i].delivered = IF ok THEN @ + 1 ELSE @]
    /\ UNCHANGED <<store, hs, rt, now, events>>

\* the wall clock
Tick ==
    /\ events < MaxEvents
    /\ events' = events + 1
    /\ now' = now + TickSecs
    /\ UNCHANGED <<store, hs, rt, timers>>

Next ==
    \/ \E c \in Chats, text \in Texts : HandleStart(c, text)
    \/ \E ok \in BOOLEAN, len \in GenLens : HandleGenDone(ok, len)
    \/ \E ok \in BOOLEAN : HandleSendDone(ok)
    \/ \E k \in Kinds : RoutineStart(k)
    \/ \E ok \in BOOLEAN, len \in GenLens : RoutineGenDone(ok, len)
    \/ \E k \in Kinds, ok \in BOOLEAN : RoutineSendDone(k, ok)
    \/ \E i \in 1..MaxTimers : TimerWake(i)
    \/ \E i \in 1..MaxTimers, ok \in BOOLEAN : TimerSendDone(i, ok)
    \/ Tick

Spec == Init /\ [][Next]_vars

\* the event loop runs a reminder whose sleep is over, and a send ends
Fairness ==
    \A i \in 1..MaxTimers :
        /\ WF_vars(TimerWake(i))
        /\ WF_vars(\E ok \in BOOLEAN : TimerSendDone(i, ok))

SpecFair == Spec /\ Fairness

\* the message handler, the reminders and the clock, without the daily
\* routines (which create no reminder and touch none)
NextReminders ==
    \/ \E c \in Chats, text \in Texts \cup {TOk1} : HandleStart(c, text)
    \/ \E ok \in BOOLEAN, len \in GenLens : HandleGenDone(ok, len)
    \/ \E ok \in BOOLEAN : HandleSendDone(ok)
    \/ \E i \in 1..MaxTimers : TimerWake(i)
    \/ \E i \in 1..MaxTimers, ok \in BOOLEAN : TimerSendDone(i, ok)
    \/ Tick

SpecReminders == Init /\ [][NextReminders]_vars /\ Fairness

(***************************************************************************)
(* schedule_task on its own: one call at an instant of day 0 or day 1      *)
(***************************************************************************)
SchedToks ==
    { <<"8", ":", "0", "0">>, <<"0", ":", "0", "5">>, <<"0", ":", "1", "0">>,
      <<"0", ":", "0", "0">>, <<"2", "3", ":", "5", "9">>, <<"7", ":", "5">> }

SchedNows ==
    { d * DaySecs + h * 3600 + m * 60 + sec :
        d \in {0, 1}, h \in {0, 7, 8, 23}, m \in {0, 4, 5, 6, 49, 50, 51, 55, 59},
        sec \in {0, 1, 59} }

InitSched ==
    /\ store = <<>>
    /\ hs = IdleHandler
    /\ rt = [k \in Kinds |-> IdleRoutine]
    /\ timers = <<>>
    /\ now \in SchedNows
    /\ events = 0

SchedArm(tok) ==
    /\ timers = <<>>
    /\ timers' = schedule_task("42", tok, <<"M">>, now)
    /\ UNCHANGED <<store, hs, rt, now, events>>

NextSched == \E tok \in SchedToks : SchedArm(tok)

SpecSched == InitSched /\ [][NextSched]_vars

(***************************************************************************)
(* send_long_message on its own: free-chat messages of one chat, whose     *)
(* reply is the generated text itself, of a length around the chunk limit  *)
(***************************************************************************)
ChunkLens ==
    { 0, 1, MAX_LEN - 1, MAX_LEN, MAX_LEN + 1, 2 * MAX_LEN - 1, 2 * MAX_LEN,
      2 * MAX_LEN + 1, 3 * MAX_LEN, 3 * MAX_LEN + 1 }

InitChunks ==
    /\ store = <<NewRecord("42")>>
    /\ hs = IdleHandler
    /\ rt = [k \in Kinds |-> IdleRoutine]
    /\ timers = <<>>
    /\ now = StartClock
    /\ events = 0

NextChunks ==
    \/ HandleStart("42", TRun)
    \/ \E len \in ChunkLens : HandleGenDone(TRUE, len)
    \/ \E ok \in BOOLEAN : HandleSendDone(ok)

SpecChunks == InitChunks /\ [][NextChunks]_vars

(***************************************************************************)
(* Vocabulary of the properties                                            *)
(***************************************************************************)
IsPrefix(a, b) == Len(a) <= Len(b) /\ SubSeq(b, 1, Len(a)) = a

\* the lines of a submitted schedule, and what makes a line well-formed
InputLines(text) == split_lines(strip(text))
TimeOf(line) == SubSeq(line, 1, FirstPos(line, SP) - 1)
DescOf(line) == SubSeq(line, FirstPos(line, SP) + 1, Len(line))
WellFormed(line) == FirstPos(line, SP) # 0 /\ strptime(TimeOf(line)).ok
AllWellFormed(text) ==
    \A i \in 1..Len(InputLines(text)) : WellFormed(InputLines(text)[i])
FirstBad(text) ==
    CHOOSE k \in 1..Len(InputLines(text)) :
        /\ ~WellFormed(InputLines(text)[k])
        /\ \A j \in 1..(k - 1) : WellFormed(InputLines(text)[j])

\* the handler takes a message in this step / makes a step of its own
Starts == hs.pc \notin HandlerRunning /\ hs'.pc \in HandlerRunning
Saves == hs.pc \in HandlerRunning /\ hs'.pc = "saved"

\* C1: a message handled in plan mode that reaches save_data leaves the
\* chat's stored diary equal to the loaded diary plus the text as a plan
\* entry and the stored mode schedule; a generator failure never ends the
\* handler (the reply is sent with the fallback text).
C1_PlanToSchedule ==
    [][ hs.mode = "plan" /\ hs.pc \in HandlerRunning =>
          /\ hs.pc = "gen" => hs'.pc \in {"gen", "send"}
          /\ Saves =>
               /\ Has(store', hs.chat)
               /\ Get(store', hs.chat).mode = "schedule"
               /\ Get(store', hs.chat).diary =
                     Append(Get(hs.loaded, hs.chat).diary,
                            [type |-> "plan", text |-> hs.text]) ]_vars

C1_Witness ==
    /\ hs.pc = "saved" /\ hs.mode = "plan" /\ hs.gen = "fallback"
    /\ Get(store, hs.chat).mode = "schedule"
    /\ Get(store, hs.chat).diary = <<[type |-> "plan", text |-> hs.text]>>

\* C2: a schedule whose n lines are all well-formed, handled in schedule
\* mode: the step that takes the message arms exactly n reminders, the i-th
\* for line i; no reminder is armed later by the handler; and when it
\* reaches save_data the stored tasks are exactly the n (time, description)
\* pairs in input order and the stored mode is none.
C2_ValidSchedule ==
    [][ /\ (Starts /\ hs'.mode = "schedule" /\ AllWellFormed(hs'.text)) =>
             LET L == InputLines(hs'.text) IN
             /\ Len(timers') = Len(timers) + Len(L)
             /\ SubSeq(timers', 1, Len(timers)) = timers
             /\ \A i \in 1..Len(L) :
                   /\ timers'[Len(timers) + i].chat = hs'.chat
                   /\ timers'[Len(timers) + i].time_str = TimeOf(L[i])
                   /\ timers'[Len(timers) + i].task = DescOf(L[i])
                   /\ timers'[Len(timers) + i].pc = "sleeping"
        /\ (hs.pc \in HandlerRunning /\ ~Starts) => Len(timers') = Len(timers)
        /\ (Saves /\ hs.mode = "schedule" /\ AllWellFormed(hs.text)) =>
             LET L == InputLines(hs.text) IN
             /\ Get(store', hs.chat).tasks =
                   [i \in 1..Len(L) |-> <<TimeOf(L[i]), DescOf(L[i])>>]
             /\ Get(store', hs.chat).mode = "none"
             /\ hs.armed = Len(L) ]_vars

C2_Witness ==
    /\ hs.pc = "saved" /\ hs.mode = "schedule" /\ hs.text = TOk2
    /\ Get(hs.loaded, hs.chat).tasks = <<OldTask>>
    /\ Get(store, hs.chat).tasks =
          << <<<<"8", ":", "0", "0">>, <<"M">>>>, <<<<"9", ":", "3", "0">>, <<"W">>>> >>
    /\ Get(store, hs.chat).mode = "none"
    /\ Len(timers) = 2

\* C3: a schedule whose first malformed line is line k, handled in schedule
\* mode: the only send of the handler is the error message carrying line k,
\* no confirmation is sent, and no step of the handler writes the store
\* (the chat's mode stays schedule, its tasks and diary stay as they were);
\* a stored mode schedule ends only when the chat's handler saves a fully
\* valid schedule or a daily routine saves.
C3_ErrorReply(text) == [kind |-> "error", arg |-> InputLines(text)[FirstBad(text)]]

C3_MalformedLine ==
    [][ /\ (Starts /\ hs'.mode = "schedule" /\ ~AllWellFormed(hs'.text)) =>
             /\ hs'.pc = "error"
             /\ hs'.pending = <<C3_ErrorReply(hs'.text)>>
             /\ hs'.out = <<>>
             /\ store' = store
             /\ Get(store, hs'.chat).mode = "schedule"
        /\ (hs.pc \in HandlerRunning /\ hs.mode = "schedule"
               /\ ~AllWellFormed(hs.text) /\ hs' # hs) =>
             /\ hs'.pc \in {"rejected", "failed"}
             /\ Len(hs'.out) = 1
             /\ hs'.out[1].msg = C3_ErrorReply(hs.text)
             /\ hs'.pending = <<>>
             /\ store' = store
        /\ \A c \in Chats :
             (Has(store, c) /\ Get(store, c).mode = "schedule"
                 /\ ~(Has(store', c) /\ Get(store', c).mode = "schedule")) =>
                \/ Saves /\ hs.chat = c /\ hs.mode = "schedule" /\ AllWellFormed(hs.text)
                \/ \E k \in Kinds : rt'[k].pc = "saved" /\ rt'[k] # rt[k] ]_vars

C3_Witness ==
    /\ hs.pc = "rejected" /\ hs.mode = "schedule" /\ hs.text = TBad2
    /\ hs.out = <<[msg |-> [kind |-> "error", arg |-> <<"b", "a", "d">>], ok |-> TRUE]>>
    /\ Get(store, hs.chat) = Get(hs.loaded, hs.chat)
    /\ Get(store, hs.chat).mode = "schedule"

\* the task's clock time in minutes, and the instant a reminder fires at
TaskMinutes(t) == strptime(t.time_str).hour * 60 + strptime(t.time_str).minute
FireAt(t) == t.armed + t.delay
LeadSecs == LeadMinutes * 60

\* the first instant at or after `from` whose clock time is m minutes
FirstAtOrAfter(m, from) ==
    IF DayStart(from) + m * 60 >= from
    THEN DayStart(from) + m * 60
    ELSE DayStart(from) + m * 60 + DaySecs

\* C4: the reminder for task time t armed at instant now fires at the first
\* instant not before now whose clock time is t - 10 minutes modulo 24 hours
\* (today when that clock time has not passed, else tomorrow), so that
\* 0 <= delay < 24 hours.
C4_FireInstant ==
    \A i \in 1..Len(timers) :
        LET t == timers[i]
            T == TaskMinutes(t)
            clock == IF T >= LeadMinutes THEN T - LeadMinutes
                     ELSE T + 24 * 60 - LeadMinutes
            today == DayStart(t.armed) + clock * 60
        IN  /\ FireAt(t) % DaySecs = clock * 60
            /\ FireAt(t) >= t.armed
            /\ FireAt(t) - DaySecs < t.armed
            /\ FireAt(t) = IF today >= t.armed THEN today ELSE today + DaySecs
            /\ 0 <= t.delay /\ t.delay < DaySecs

C4_Witness ==
    \E i \in 1..Len(timers) :
        /\ TaskMinutes(timers[i]) = 5
        /\ FireAt(timers[i]) % DaySecs = 23 * 3600 + 55 * 60
        /\ DayStart(FireAt(timers[i])) = DayStart(timers[i].armed) + DaySecs

\* C5 as stated: the reminder fires exactly 10 minutes before the first
\* occurrence of clock time t at or after now.
C5_Original ==
    \A i \in 1..Len(timers) :
        FireAt(timers[i]) =
            FirstAtOrAfter(TaskMinutes(timers[i]), timers[i].armed) - LeadSecs

\* C5 as amended: the reminder fires exactly 10 minutes before the first
\* occurrence of clock time t that is at least 10 minutes after now; it
\* fires neither before now nor after the start of that occurrence.
C5_LeadBeforeTarget ==
    \A i \in 1..Len(timers) :
        LET t == timers[i]
            target == FirstAtOrAfter(TaskMinutes(t), t.armed + LeadSecs)
        IN  /\ FireAt(t) = target - LeadSecs
            /\ t.armed <= FireAt(t)
            /\ FireAt(t) < target

\* a call made less than 10 minutes before the next occurrence of t
C5_Witness ==
    \E i \in 1..Len(timers) :
        LET t == timers[i]
            next == FirstAtOrAfter(TaskMinutes(t), t.armed)
        IN  /\ next - LeadSecs < t.armed
            /\ FireAt(t) = next + DaySecs - LeadSecs

\* C6: every write of the store keeps every chat's stored diary as a prefix
\* of the new stored diary (the diary is append-only in the store).
C6_DiaryAppendOnly ==
    [][ \A c \in Chats :
          Has(store, c) =>
             IsPrefix(Get(store, c).diary,
                      IF Has(store', c) THEN Get(store', c).diary ELSE <<>>) ]_vars

\* C7: a handler that returns after save_data leaves a record of its chat in
\* the store, and a record that is in the store is in the store after every
\* step.
C7_RecordNeverRemoved ==
    [][ /\ Saves => Has(store', hs.chat)
        /\ \A c \in Chats : Has(store, c) => Has(store', c) ]_vars

\* C8: a routine writes the store once, when it ends after its last chat,
\* and what it writes is what it loaded with every chat's mode set to plan
\* (morning) or reflect (evening); no other step of the routine writes.
C8_RoutineSetsModes ==
    [][ \A k \in Kinds :
          /\ (rt'[k].pc = "saved" /\ rt'[k] # rt[k]) =>
                /\ store' = [i \in 1..Len(rt'[k].loaded) |->
                               [rt'[k].loaded[i] EXCEPT !.mode = routine_mode(k)]]
                /\ rt'[k].saves = 1
                /\ rt'[k].sent = Len(rt'[k].loaded)
          /\ (rt'[k].pc # "saved" /\ rt'[k] # rt[k]) =>
                /\ store' = store
                /\ rt'[k].saves = 0 ]_vars

C8_Witness ==
    /\ rt["morning"].pc = "saved"
    /\ Len(rt["morning"].loaded) = 2
    /\ rt["morning"].loaded[1].mode = "schedule"
    /\ rt["morning"].loaded[2].mode = "reflect"
    /\ store = [i \in 1..2 |-> [rt["morning"].loaded[i] EXCEPT !.mode = "plan"]]

\* C9: a routine never ends on a failed send: whenever it has ended it has
\* sent to every chat it loaded and has written the store.
C9_SendFailureSwallowed ==
    \A k \in Kinds :
        rt[k].pc \notin RoutineRunning \cup {"idle"} =>
            /\ rt[k].pc = "saved"
            /\ rt[k].sent = Len(rt[k].loaded)
            /\ rt[k].saves = 1

\* C10: a reminder makes no send before its delay has elapsed and never more
\* than one; once the delay has elapsed it makes its one attempt and ends,
\* delivered or not; an ended reminder does nothing more.
C10_OneShot ==
    /\ [](\A i \in 1..Len(timers) :
            /\ timers[i].attempts <= 1
            /\ timers[i].attempts = 1 => Elapsed(timers[i])
            /\ timers[i].pc = "sleeping" => timers[i].attempts = 0
            /\ timers[i].delivered <= timers[i].attempts)
    /\ [][\A i \in 1..Len(timers) :
            timers[i].pc = "done" => timers'[i] = timers[i]]_vars
    /\ \A i \in 1..MaxTimers :
          (i <= Len(timers) /\ Elapsed(timers[i]))
             ~> (i <= Len(timers) /\ timers[i].pc = "done" /\ timers[i].attempts = 1)

C10_Witness ==
    \E i \in 1..Len(timers) :
        /\ timers[i].pc = "done"
        /\ timers[i].attempts = 1
        /\ timers[i].delivered = 0

\* a text of L characters, all different, and its slice text[from:to]
TextOf(L) == [i \in 1..L |-> i]
Slice(text, ch) == SubSeq(text, ch.from + 1, ch.to)

RECURSIVE Concat(_, _)
Concat(text, chunks) ==
    IF chunks = <<>> THEN <<>>
    ELSE Slice(text, Head(chunks)) \o Concat(text, Tail(chunks))

\* the chunks of the reply, sent and still to send, in send order
ReplyChunks == [k \in 1..Len(hs.out) |-> hs.out[k].msg.arg]
                  \o [k \in 1..Len(hs.pending) |-> hs.pending[k].arg]

CeilDiv(a, b) == IF a % b = 0 THEN a \div b ELSE a \div b + 1

\* C11: a reply of L characters goes out in exactly ceil(L / 4096) sends,
\* each chunk non-empty and at most 4096 characters, in text order, the
\* chunks joined in send order giving the reply; more than 4096 characters
\* take at least two sends.  (While sends are pending the sent and pending
\* chunks together are the chunks; a reply whose sends all succeeded has
\* had them all.)
C11_Chunks ==
    /\ hs.pc = "send" =>
          /\ Len(ReplyChunks) = CeilDiv(hs.len, MAX_LEN)
          /\ \A k \in 1..Len(ReplyChunks) :
                /\ ReplyChunks[k].to - ReplyChunks[k].from >= 1
                /\ ReplyChunks[k].to - ReplyChunks[k].from <= MAX_LEN
                /\ Slice(TextOf(hs.len), ReplyChunks[k]) # <<>>
          /\ Concat(TextOf(hs.len), ReplyChunks) = TextOf(hs.len)
          /\ hs.len > MAX_LEN => Len(ReplyChunks) >= 2
    /\ (hs.pc = "saved" /\ hs.gen # "none") =>
          /\ Len(hs.out) = CeilDiv(hs.len, MAX_LEN)
          /\ \A k \in 1..Len(hs.out) : hs.out[k].ok
          /\ Concat(TextOf(hs.len), ReplyChunks) = TextOf(hs.len)

C11_Witness ==
    /\ hs.pc = "saved"
    /\ hs.len = 2 * MAX_LEN + 1
    /\ Len(hs.out) = 3
    /\ hs.out[3].msg.arg = [from |-> 2 * MAX_LEN, to |-> 2 * MAX_LEN + 1]

\* the stored tasks of the handler's chat after the step
StoredTasks == Get(store', hs.chat).tasks
SavesSchedule == Saves /\ hs.mode = "schedule" /\ AllWellFormed(hs.text)

\* C12 as stated: the time stored for each accepted line is the zero-padded
\* HH:MM form of the line's time token (parsed, then formatted).
C12_Original ==
    [][ SavesSchedule =>
          \A i \in 1..Len(InputLines(hs.text)) :
             StoredTasks[i][1] = strftime(strptime(TimeOf(InputLines(hs.text)[i]))) ]_vars

\* C12 as amended: the time stored for each accepted line is the line's
\* time token as it was submitted; it parses to the same hour and minute,
\* and it is the zero-padded form exactly when the token was zero-padded.
C12_StoredToken ==
    [][ SavesSchedule =>
          /\ Len(StoredTasks) = Len(InputLines(hs.text))
          /\ \A i \in 1..Len(InputLines(hs.text)) :
               LET tok == TimeOf(InputLines(hs.text)[i]) IN
               /\ StoredTasks[i][1] = tok
               /\ strptime(StoredTasks[i][1]) = strptime(tok)
               /\ (StoredTasks[i][1] = strftime(strptime(tok)))
                     <=> (tok = strftime(strptime(tok))) ]_vars

C12_Witness ==
    /\ hs.pc = "saved" /\ hs.mode = "schedule" /\ hs.text = TOk2
    /\ Get(store, hs.chat).tasks[1][1] = <<"8", ":", "0", "0">>
    /\ strftime(strptime(Get(store, hs.chat).tasks[1][1])) = <<"0", "8", ":", "0", "0">>
    /\ Get(store, hs.chat).tasks[2][1] = <<"9", ":", "3", "0">>

\* C13: the first message of a chat that has no record: the handler
\* creates the record with mode none, an empty diary and no tasks, treats
\* the message as free chat (it awaits the generator, arms no reminder), and
\* the record it saves is still mode none, empty diary, no tasks.
C13_FirstMessage ==
    [][ /\ (Starts /\ ~Has(store, hs'.chat)) =>
             /\ hs'.mode = "none"
             /\ hs'.pc = "gen"
             /\ Get(hs'.data, hs'.chat) =
                   [id |-> hs'.chat, mode |-> "none", diary |-> <<>>, tasks |-> <<>>]
             /\ timers' = timers
             /\ store' = store
        /\ (Saves /\ ~Has(hs.loaded, hs.chat)) =>
             /\ Has(store', hs.chat)
             /\ Get(store', hs.chat) =
                   [id |-> hs.chat, mode |-> "none", diary |-> <<>>, tasks |-> <<>>] ]_vars

C13_Witness ==
    /\ hs.pc = "saved" /\ ~Has(hs.loaded, hs.chat) /\ hs.gen # "none"
    /\ Has(store, hs.chat)
    /\ Get(store, hs.chat) =
          [id |-> hs.chat, mode |-> "none", diary |-> <<>>, tasks |-> <<>>]

\* the reminders pending before the step are still there after it, in place
KeepsTimers == /\ Len(timers') >= Len(timers)
               /\ SubSeq(timers', 1, Len(timers)) = timers

\* C14: a schedule whose first malformed line is line k, handled in schedule
\* mode: the step that takes the message arms exactly k-1 reminders, those of
\* lines 1..k-1, and none for line k or a later line; the error reply is sent
\* after that with the store unchanged; the k-1 reminders are not disarmed by
\* the rejection, and each makes its attempt once its delay has elapsed.
C14_PartialArming ==
    /\ [][ (Starts /\ hs'.mode = "schedule" /\ ~AllWellFormed(hs'.text)) =>
             LET L == InputLines(hs'.text)
                 k == FirstBad(hs'.text) IN
             /\ Len(timers') = Len(timers) + k - 1
             /\ KeepsTimers
             /\ \A i \in 1..(k - 1) :
                   /\ timers'[Len(timers) + i].chat = hs'.chat
                   /\ timers'[Len(timers) + i].time_str = TimeOf(L[i])
                   /\ timers'[Len(timers) + i].task = DescOf(L[i])
                   /\ timers'[Len(timers) + i].pc = "sleeping"
             /\ hs'.armed = k - 1
             /\ store' = store ]_vars
    /\ [][ (hs.pc = "error" /\ hs' # hs) =>
             /\ timers' = timers
             /\ store' = store
             /\ Len(timers) >= hs.armed ]_vars
    /\ \A i \in 1..MaxTimers :
          (i <= Len(timers) /\ timers[i].pc = "sleeping" /\ Elapsed(timers[i]))
             ~> (i <= Len(timers) /\ timers[i].attempts = 1)

C14_Witness ==
    /\ hs.pc = "rejected" /\ hs.mode = "schedule" /\ hs.text = TBad2
    /\ hs.armed = 1 /\ Len(timers) = 1
    /\ timers[1].task = <<"M">> /\ timers[1].pc = "done" /\ timers[1].delivered = 1
    /\ Get(store, hs.chat).tasks = <<OldTask>>
    /\ Get(store, hs.chat).mode = "schedule"

\* the morning routine's latest run has sent its prompt to chat c
MorningPrompted(c) ==
    /\ rt["morning"].pc # "idle"
    /\ Has(rt["morning"].loaded, c)
    /\ rt["morning"].sent >= Idx(rt["morning"].loaded, c)

\* C15: once the morning routine has sent its prompt to a chat, the next
\* message of that chat (here: the first message handled at all, with no
\* evening routine run so far) is handled in plan mode.
C15_PromptThenPlan ==
    [][ \A c \in Chats :
          (/\ MorningPrompted(c)
           /\ rt["evening"].pc = "idle"
           /\ hs.pc = "idle"
           /\ Starts /\ hs'.chat = c) => hs'.mode = "plan" ]_vars

\* one reminder's step: what was captured at arming stays, the position
\* only moves forward
SameReminder(t, u) ==
    /\ u.chat = t.chat /\ u.task = t.task /\ u.time_str = t.time_str
    /\ u.armed = t.armed /\ u.delay = t.delay
    /\ t.pc = "sleeping" => u.pc \in {"sleeping", "sending"}
    /\ t.pc = "sending" => u.pc \in {"sending", "done"}
    /\ t.pc = "done" => u.pc = "done"

\* the descriptions stored as the tasks of chat c
StoredDescs(c) ==
    IF Has(store, c)
    THEN {Get(store, c).tasks[j][2] : j \in 1..Len(Get(store, c).tasks)}
    ELSE {}

\* C16: no step removes a reminder or changes its chat, task text, arming
\* instant or delay; the step that accepts a new valid schedule leaves every
\* pending reminder as it was and adds its own after them; every reminder
\* whose delay has elapsed makes its attempt and ends.
C16_NoCancel ==
    /\ [][ /\ Len(timers') >= Len(timers)
           /\ \A i \in 1..Len(timers) : SameReminder(timers[i], timers'[i])
           /\ (Starts /\ hs'.mode = "schedule") => KeepsTimers ]_vars
    /\ \A i \in 1..MaxTimers :
          (i <= Len(timers) /\ Elapsed(timers[i]))
             ~> (i <= Len(timers) /\ timers[i].pc = "done")

C16_Witness ==
    /\ hs.pc = "saved" /\ hs.mode = "schedule" /\ hs.text = TOk1
    /\ Len(timers) = 2
    /\ timers[1].chat = hs.chat /\ timers[1].task = <<"M">>
    /\ timers[1].armed = StartClock /\ timers[1].pc = "done"
    /\ timers[1].delivered = 1
    /\ timers[1].task \notin StoredDescs(hs.chat)
    /\ timers[2].task \in StoredDescs(hs.chat)

\* C17: a message handled in reflect mode that reaches save_data leaves the
\* chat's stored diary equal to the loaded diary plus the text as a
\* reflection entry, the stored mode none and the stored tasks as loaded; a
\* generator failure never ends the handler; the handler arms no reminder.
C17_ReflectToNone ==
    [][ /\ (Starts /\ hs'.mode = "reflect") => timers' = timers /\ hs'.pc = "gen"
        /\ (hs.mode = "reflect" /\ hs.pc \in HandlerRunning) =>
             /\ Len(timers') = Len(timers)
             /\ hs.pc = "gen" => hs'.pc \in {"gen", "send"}
             /\ Saves =>
                  /\ Has(store', hs.chat)
                  /\ Get(store', hs.chat).mode = "none"
                  /\ Get(store', hs.chat).diary =
                        Append(Get(hs.loaded, hs.chat).diary,
                               [type |-> "reflection", text |-> hs.text])
                  /\ Get(store', hs.chat).tasks = Get(hs.loaded, hs.chat).tasks ]_vars

C17_Witness ==
    /\ hs.pc = "saved" /\ hs.mode = "reflect" /\ hs.gen = "fallback"
    /\ Get(store, hs.chat).mode = "none"
    /\ Get(store, hs.chat).tasks = <<OldTask>>
    /\ Get(store, hs.chat).diary = <<OldPlan, [type |-> "reflection", text |-> hs.text]>>

\* C18: the handler writes the store in one step only, the save_data at its
\* end, reached only after every send of its reply succeeded; a failed send
\* ends the handler with the store as it was, so that a diary entry and its
\* mode transition are persisted together or not at all.
C18_FailedSendSavesNothing ==
    [][ /\ (hs.pc \in HandlerRunning /\ hs' # hs /\ ~Saves) => store' = store
        /\ (hs.pc \in HandlerRunning /\ hs'.pc = "failed") =>
             /\ store' = store
             /\ hs'.out # <<>> /\ ~hs'.out[Len(hs'.out)].ok
        /\ hs.pc = "failed" => (hs' = hs \/ Starts)
        /\ Saves =>
             /\ \A k \in 1..Len(hs'.out) : hs'.out[k].ok
             /\ hs.mode = "plan" =>
                  /\ Get(store', hs.chat).mode = "schedule"
                  /\ Len(Get(store', hs.chat).diary) = Len(Get(hs.loaded, hs.chat).diary) + 1
             /\ hs.mode = "reflect" =>
                  /\ Get(store', hs.chat).mode = "none"
                  /\ Len(Get(store', hs.chat).diary) = Len(Get(hs.loaded, hs.chat).diary) + 1 ]_vars

C18_Witness ==
    /\ hs.pc = "failed" /\ hs.mode = "plan"
    /\ Len(hs.out) = 2 /\ hs.out[1].ok /\ ~hs.out[2].ok
    /\ store = hs.loaded
    /\ Get(store, hs.chat).mode = "plan" /\ Get(store, hs.chat).diary = <<>>

\* C19: a step that arms a reminder or moves one on leaves the store as it
\* is; the reminders a schedule arms are determined by the chat, the text
\* and the instant alone; and a sleeping reminder can fire exactly when its
\* delay has elapsed, whatever the store holds.
C19_TimersApartFromStore ==
    /\ [](\A i \in 1..Len(timers) :
            ENABLED TimerWake(i) <=>
               (timers[i].pc = "sleeping" /\ Elapsed(timers[i])))
    /\ [][ /\ timers' # timers => store' = store
           /\ (Starts /\ hs'.mode = "schedule") =>
                timers' = timers \o parse_schedule(hs'.chat, hs'.text, now).armed ]_vars

C19_Witness ==
    \E i \in 1..Len(timers) :
        /\ timers[i].pc = "done" /\ timers[i].delivered = 1
        /\ timers[i].task \notin StoredDescs(timers[i].chat)
        /\ store \in InitStores

====
